---- MODULE Spec2Model ----
(***************************************************************************)
(* Model of check_section_ids.py: the section-id validator                 *)
(* (analyze_section_ids), the report renderer (format_report) and the      *)
(* entry point (main).                                                     *)
(*                                                                         *)
(* A Python value is modelled as a tagged record [kind, val]:              *)
(*   kind = "none"  the key is absent / null (dict.get gives None)         *)
(*   kind = "str"   a string such as "bad"                                 *)
(*   kind = "bool"  True (val = 1) or False (val = 0)                      *)
(*   kind = "int"   an integer, val is its value                           *)
(* bool is a subclass of int in Python: isinstance(True, int) is True and  *)
(* True compares and orders as 1.                                          *)
(***************************************************************************)
EXTENDS Integers, Sequences, FiniteSets, TLC

VARIABLES data, pc, idx, section_ids, invalid_entries, result, first, runs,
          stdout, exitcode

vars == <<data, pc, idx, section_ids, invalid_entries, result, first, runs,
          stdout, exitcode>>

-----------------------------------------------------------------------------
(* Program constants *)

MIN_SECTION_ID == 100000
MAX_SECTION_ID == 999999
ReportLimit == 50
ISSUE == "Missing or non-integer sectionId"

-----------------------------------------------------------------------------
(* Bounds of the model *)

MaxLen == 3             \* short datasets: every sequence of 0..MaxLen records
MaxOver == 1            \* long datasets: up to ReportLimit + MaxOver records

-----------------------------------------------------------------------------
(* Python values *)

PyNone == [kind |-> "none", val |-> 0]
PyStr == [kind |-> "str", val |-> 0]
PyBool(b) == [kind |-> "bool", val |-> IF b THEN 1 ELSE 0]
PyInt(n) == [kind |-> "int", val |-> n]

IntKeys == {50, MIN_SECTION_ID - 1, MIN_SECTION_ID, 150000,
            MAX_SECTION_ID, MAX_SECTION_ID + 1}

SectionIdValues == {PyNone, PyStr, PyBool(TRUE), PyBool(FALSE)}
                     \cup {PyInt(n) : n \in IntKeys}

NoneText == "None"
CourseCodes == {"CS101", NoneText}

Records == [sectionId : SectionIdValues, courseCode : CourseCodes,
            sectionName : {"A"}]

ShortInputs == UNION {[1..n -> Records] : n \in 0..MaxLen}

LongInput(n, head, rest) == [i \in 1..n |-> IF i = 1 THEN head ELSE rest]

LongInputs == {LongInput(n, h, r) : n \in (ReportLimit - 1)..(ReportLimit + MaxOver),
                                    h \in {x \in Records : x.courseCode = "CS101"},
                                    r \in {x \in Records : x.courseCode = "CS101"}}

Inputs == ShortInputs \cup LongInputs

-----------------------------------------------------------------------------
(* analyze_section_ids *)

\* isinstance(section_id, int): true of ints and of bools
IsInstanceInt(v) == v.kind \in {"int", "bool"}

\* MIN_SECTION_ID <= section_id <= MAX_SECTION_ID
InRange_Strict(v) == MIN_SECTION_ID < v.val /\ v.val < MAX_SECTION_ID
InRange(v) == MIN_SECTION_ID <= v.val /\ v.val <= MAX_SECTION_ID

\* the dict appended at lines 21-25 (no "issue" key)
RangeEntry(entry) == [sectionId |-> entry.sectionId,
                      courseCode |-> entry.courseCode,
                      sectionName |-> entry.sectionName]

\* the dict appended at lines 27-32
TypeEntry(entry) == [sectionId |-> entry.sectionId,
                     courseCode |-> entry.courseCode,
                     sectionName |-> entry.sectionName,
                     issue |-> ISSUE]

\* min(section_ids): the first element no other element is smaller than
PyMin(s) == s[CHOOSE i \in 1..Len(s) :
                /\ \A j \in 1..Len(s) : s[i].val <= s[j].val
                /\ \A j \in 1..(i - 1) : s[j].val > s[i].val]

\* max(section_ids): the first element no other element is larger than
PyMax(s) == s[CHOOSE i \in 1..Len(s) :
                /\ \A j \in 1..Len(s) : s[i].val >= s[j].val
                /\ \A j \in 1..(i - 1) : s[j].val < s[i].val]

NoResult == [kind |-> "none"]
ErrorResult == [kind |-> "error",
                message |-> "No valid sectionId values found in the dataset."]
Statistics(ids, inv) == [kind |-> "stats", count |-> Len(ids),
                         min |-> PyMin(ids), max |-> PyMax(ids),
                         invalid |-> inv]

Init == /\ data = <<>>
        /\ pc = "start"
        /\ idx = 0
        /\ section_ids = <<>>
        /\ invalid_entries = <<>>
        /\ result = NoResult
        /\ first = NoResult
        /\ runs = 0
        /\ stdout = <<>>
        /\ exitcode = -1

\* load_fallback: whatever the dataset file holds
Load == /\ pc = "start"
        /\ data' \in Inputs
        /\ pc' = "loaded"
        /\ UNCHANGED <<idx, section_ids, invalid_entries, result, first, runs,
                       stdout, exitcode>>

\* entering analyze_section_ids: fresh local lists
AnalyzeStart_NoReset == /\ pc = "loaded"
                        /\ idx' = 0
                        /\ runs' = runs + 1
                        /\ pc' = "loop"
                        /\ UNCHANGED <<data, section_ids, invalid_entries,
                                       result, first, stdout, exitcode>>
AnalyzeStart == /\ pc = "loaded"
                /\ section_ids' = <<>>
                /\ invalid_entries' = <<>>
                /\ idx' = 0
                /\ runs' = runs + 1
                /\ pc' = "loop"
                /\ UNCHANGED <<data, result, first, stdout, exitcode>>

\* one iteration of the for loop
AnalyzeStep == /\ pc = "loop"
               /\ idx < Len(data)
               /\ LET entry == data[idx + 1]
                      section_id == entry.sectionId
                  IN IF IsInstanceInt(section_id)
                     THEN /\ section_ids' = Append(section_ids, section_id)
                          /\ invalid_entries' =
                               IF ~InRange(section_id)
                               THEN Append(invalid_entries, RangeEntry(entry))
                               ELSE invalid_entries
                     ELSE /\ section_ids' = section_ids
                          /\ invalid_entries' =
                               Append(invalid_entries, TypeEntry(entry))
               /\ idx' = idx + 1
               /\ UNCHANGED <<data, pc, result, first, runs, stdout, exitcode>>

\* if not section_ids: raise ValueError
AnalyzeRaise == /\ pc = "loop"
                /\ idx = Len(data)
                /\ section_ids = <<>>
                /\ result' = ErrorResult
                /\ pc' = "raised"
                /\ UNCHANGED <<data, idx, section_ids, invalid_entries, first,
                               runs, stdout, exitcode>>

\* return {count, min, max, invalid}
AnalyzeReturn == /\ pc = "loop"
                 /\ idx = Len(data)
                 /\ section_ids # <<>>
                 /\ result' = Statistics(section_ids, invalid_entries)
                 /\ pc' = "returned"
                 /\ UNCHANGED <<data, idx, section_ids, invalid_entries, first,
                                runs, stdout, exitcode>>

-----------------------------------------------------------------------------
(* format_report *)

\* str(value) as an f-string renders it
PyText(v) == CASE v.kind = "none" -> "None"
               [] v.kind = "str" -> "bad"
               [] v.kind = "bool" -> (IF v.val = 1 THEN "True" ELSE "False")
               [] v.kind = "int" -> ToString(v.val)

\* item.get('issue', 'out of range')
IssueOf(item) == IF "issue" \in DOMAIN item THEN item.issue ELSE "out of range"

Line(kind, text) == [kind |-> kind, text |-> text]

HeadLines(stats) ==
  << Line("title", "Section ID Analysis"),
     Line("rule", "===================="),
     Line("count", "Total entries checked: " \o ToString(stats.count)),
     Line("min", "Minimum sectionId: " \o PyText(stats.min)),
     Line("max", "Maximum sectionId: " \o PyText(stats.max)),
     Line("range", "Expected range: " \o ToString(MIN_SECTION_ID) \o " - "
                     \o ToString(MAX_SECTION_ID)),
     Line("blank", "") >>

HeaderLine(stats) ==
  Line("header", "Out-of-range or invalid section IDs ("
                   \o ToString(Len(stats.invalid)) \o "):")

ItemLine(item) ==
  Line("item", "  - sectionId=" \o PyText(item.sectionId)
                 \o " courseCode=" \o item.courseCode
                 \o " sectionName=" \o item.sectionName
                 \o " issue=" \o IssueOf(item))

TruncatedLine == Line("truncated", "  ... (truncated)")

AllOkLine == Line("allok", "All section IDs fall within the expected range.")

\* if stats["invalid"]: a non-empty list is truthy
HasInvalid_MoreThanOne(stats) == Len(stats.invalid) > 1
HasInvalid(stats) == stats.invalid # <<>>

\* stats["invalid"][:50]
Shown(inv) == SubSeq(inv, 1, IF Len(inv) < ReportLimit THEN Len(inv)
                                                      ELSE ReportLimit)

\* if len(stats["invalid"]) > 50
Truncated_AtLimit(inv) == Len(inv) >= ReportLimit
Truncated(inv) == Len(inv) > ReportLimit

\* the list of lines that "\n".join turns into the report text
FormatReport(stats) ==
  IF HasInvalid(stats)
  THEN HeadLines(stats) \o <<HeaderLine(stats)>>
         \o [k \in 1..Len(Shown(stats.invalid)) |-> ItemLine(Shown(stats.invalid)[k])]
         \o (IF Truncated(stats.invalid) THEN <<TruncatedLine>> ELSE <<>>)
  ELSE HeadLines(stats) \o <<AllOkLine>>

-----------------------------------------------------------------------------
(* main *)

\* print(format_report(stats))
WriteReport == /\ pc = "returned"
         /\ stdout' = Append(stdout, FormatReport(result))
         /\ pc' = "printed"
         /\ UNCHANGED <<data, idx, section_ids, invalid_entries, result, first,
                        runs, exitcode>>

\* main returns, the interpreter exits with status 0
Exit == /\ pc = "printed"
        /\ exitcode' = 0
        /\ pc' = "done"
        /\ UNCHANGED <<data, idx, section_ids, invalid_entries, result, first,
                       runs, stdout>>

\* the ValueError leaves main uncaught, the interpreter exits with status 1
Propagate_Swallowed == /\ pc = "raised"
                       /\ exitcode' = 0
                       /\ pc' = "done"
                       /\ UNCHANGED <<data, idx, section_ids, invalid_entries,
                                      result, first, runs, stdout>>
Propagate == /\ pc = "raised"
             /\ exitcode' = 1
             /\ pc' = "done"
             /\ UNCHANGED <<data, idx, section_ids, invalid_entries, result,
                            first, runs, stdout>>

Next == Load \/ AnalyzeStart \/ AnalyzeStep \/ AnalyzeRaise \/ AnalyzeReturn
          \/ WriteReport \/ Exit \/ Propagate

Spec == Init /\ [][Next]_vars

-----------------------------------------------------------------------------
(* the validator called a second time on the same input sequence *)

Rerun == /\ pc \in {"returned", "raised"}
         /\ runs = 1
         /\ first' = result
         /\ result' = NoResult
         /\ pc' = "loaded"
         /\ UNCHANGED <<data, idx, section_ids, invalid_entries, runs, stdout,
                        exitcode>>

NextTwice == Load \/ AnalyzeStart \/ AnalyzeStep \/ AnalyzeRaise
               \/ AnalyzeReturn \/ Rerun

SpecTwice == Init /\ [][NextTwice]_vars

-----------------------------------------------------------------------------
(* Vocabulary of the properties *)

\* the loop has handled records 1..idx and the two lists describe them
InAnalysis == pc \in {"loop", "returned", "raised", "printed", "done"}

\* the validator has come to its end, one way or the other
Finished == pc \in {"returned", "raised", "printed", "done"}

\* an integer in the sense of the data model: a number, not a boolean
IsInteger(v) == v.kind = "int"

OutOfBounds(n) == n < MIN_SECTION_ID \/ n > MAX_SECTION_ID

HasIssue(e) == "issue" \in DOMAIN e /\ e.issue = ISSUE

IntegerRecords == {i \in 1..Len(data) : IsInteger(data[i].sectionId)}

IntegerKeys == {data[i].sectionId.val : i \in IntegerRecords}

Least(S) == CHOOSE m \in S : \A n \in S : m <= n

Greatest(S) == CHOOSE m \in S : \A n \in S : m >= n

\* how often the key v occurs among the records handled so far
Occurrences(v) == Cardinality({i \in 1..idx : data[i].sectionId = v})

\* how many out-of-range entries (entries without an issue field) carry v
RangeFlags(v) ==
  Cardinality({k \in 1..Len(invalid_entries) :
                 /\ invalid_entries[k].sectionId = v
                 /\ "issue" \notin DOMAIN invalid_entries[k]})

\* the invalid sequence the data model prescribes for the first n records
RECURSIVE ExpectedInvalid(_)
ExpectedInvalid(n) ==
  IF n = 0 THEN <<>>
  ELSE LET r == data[n]
           base == [sectionId |-> r.sectionId, courseCode |-> r.courseCode,
                    sectionName |-> r.sectionName]
       IN IF ~IsInteger(r.sectionId)
          THEN Append(ExpectedInvalid(n - 1),
                      [sectionId |-> r.sectionId, courseCode |-> r.courseCode,
                       sectionName |-> r.sectionName, issue |-> ISSUE])
          ELSE IF OutOfBounds(r.sectionId.val)
               THEN Append(ExpectedInvalid(n - 1), base)
               ELSE ExpectedInvalid(n - 1)

IssueCount(inv) == Cardinality({k \in 1..Len(inv) : "issue" \in DOMAIN inv[k]})

KindCount(rep, kind) == Cardinality({k \in 1..Len(rep) : rep[k].kind = kind})

-----------------------------------------------------------------------------
(* Properties *)

\* C1: every handled record whose sectionId is a boolean has an invalid entry
\* with issue = "Missing or non-integer sectionId", and its value is not among
\* the collected integer keys.
C1_BooleanIsMalformed ==
  InAnalysis =>
    \A i \in 1..idx :
      data[i].sectionId.kind = "bool" =>
        /\ \E k \in 1..Len(invalid_entries) :
              /\ invalid_entries[k].sectionId = data[i].sectionId
              /\ HasIssue(invalid_entries[k])
        /\ \A k \in 1..Len(section_ids) : section_ids[k] # data[i].sectionId

\* C2: the validator fails exactly when no record has an integer-typed
\* sectionId, and it ends only after every record was processed.
C2_FailsIffNoIntegerKey ==
  Finished =>
    /\ idx = Len(data)
    /\ (result.kind = "error") <=> (IntegerRecords = {})
    /\ (result.kind = "stats") <=> (IntegerRecords # {})

\* C3: an integer key k gets an out-of-range entry (one per record carrying
\* it) exactly when k < MIN_SECTION_ID or k > MAX_SECTION_ID; the keys
\* MIN_SECTION_ID and MAX_SECTION_ID themselves are never flagged.
C3_FlaggedIffOutOfBounds ==
  InAnalysis =>
    \A n \in IntKeys :
      RangeFlags(PyInt(n)) = IF OutOfBounds(n) THEN Occurrences(PyInt(n)) ELSE 0

C3_Witness ==
  /\ pc = "returned"
  /\ Len(data) = 3
  /\ data[1].sectionId = PyInt(MIN_SECTION_ID)
  /\ data[2].sectionId = PyInt(MAX_SECTION_ID + 1)
  /\ data[3].sectionId = PyInt(MAX_SECTION_ID)
  /\ Len(result.invalid) = 1
  /\ result.invalid[1].sectionId = PyInt(MAX_SECTION_ID + 1)

\* C4: returned statistics have count = the number of records whose sectionId
\* is an integer (in range or not) and min <= max.
C4_CountIsIntegerRecords ==
  pc = "returned" =>
    /\ result.count = Cardinality(IntegerRecords)
    /\ result.min.val <= result.max.val

\* C5: the returned min and max are the least and the greatest integer key of
\* the input, out-of-range keys included, malformed keys excluded.
C5_MinMaxOverIntegerKeys ==
  (pc = "returned" /\ IntegerKeys # {}) =>
    /\ result.min = PyInt(Least(IntegerKeys))
    /\ result.max = PyInt(Greatest(IntegerKeys))

\* C10: the invalid sequence is, in input order, one entry with the issue
\* field per record that is not an integer and one entry without it per
\* integer record outside the bounds; count plus the entries with an issue
\* field is the number of records.
C10_InvalidInOrderOneReason ==
  pc = "returned" =>
    /\ result.invalid = ExpectedInvalid(Len(data))
    /\ result.count + IssueCount(result.invalid) = Len(data)

\* C6: with n >= 1 invalid entries the written report has, after the seven
\* leading lines, one header line stating n, then the first min(n, 50) entries
\* itemized in order, then one truncation line exactly when n > 50, and nothing
\* else.
C6_ItemizedUpToLimit ==
  (stdout # <<>> /\ Len(result.invalid) >= 1) =>
    LET rep == stdout[1]
        inv == result.invalid
        n == Len(inv)
        shown == IF n < ReportLimit THEN n ELSE ReportLimit
        cut == IF n > ReportLimit THEN 1 ELSE 0
    IN /\ Len(rep) = 7 + 1 + shown + cut
       /\ rep[8] = [kind |-> "header",
                    text |-> "Out-of-range or invalid section IDs ("
                               \o ToString(n) \o "):"]
       /\ \A k \in 1..shown :
            /\ rep[8 + k].kind = "item"
            /\ rep[8 + k].text =
                 "  - sectionId=" \o PyText(inv[k].sectionId)
                   \o " courseCode=" \o inv[k].courseCode
                   \o " sectionName=" \o inv[k].sectionName
                   \o " issue=" \o (IF "issue" \in DOMAIN inv[k]
                                    THEN inv[k].issue ELSE "out of range")
       /\ KindCount(rep, "header") = 1
       /\ KindCount(rep, "item") = shown
       /\ KindCount(rep, "truncated") = cut
       /\ cut = 1 => rep[Len(rep)].kind = "truncated"

C6_Witness ==
  /\ stdout # <<>>
  /\ Len(result.invalid) = ReportLimit + 1
  /\ KindCount(stdout[1], "item") = ReportLimit
  /\ KindCount(stdout[1], "truncated") = 1

\* C7: with no invalid entry the report ends with the single line saying all
\* section IDs fall within the expected range and has no header, itemized or
\* truncation line; with an invalid entry that line is not in the report.
C7_AllWithinRangeLine ==
  stdout # <<>> =>
    LET rep == stdout[1]
    IN IF result.invalid = <<>>
       THEN /\ Len(rep) = 8
            /\ rep[8] = [kind |-> "allok",
                         text |-> "All section IDs fall within the expected range."]
            /\ KindCount(rep, "allok") = 1
            /\ KindCount(rep, "header") = 0
            /\ KindCount(rep, "item") = 0
            /\ KindCount(rep, "truncated") = 0
       ELSE KindCount(rep, "allok") = 0

C7_Witness ==
  /\ stdout # <<>>
  /\ result.invalid = <<>>
  /\ Len(data) = MaxLen
  /\ stdout[1][8].kind = "allok"

\* C8: the report is written only after validation returned statistics; a
\* finished run has written exactly one report and exit status 0 if validation
\* returned statistics (with or without invalid entries), and has written
\* nothing and a non-zero exit status if validation failed.
C8_ReportIffStatistics ==
  /\ stdout # <<>> =>
       /\ pc \in {"printed", "done"}
       /\ result.kind = "stats"
       /\ stdout = <<FormatReport(result)>>
  /\ pc = "done" =>
       /\ result.kind \in {"stats", "error"}
       /\ result.kind = "stats" <=> (exitcode = 0 /\ Len(stdout) = 1)
       /\ result.kind = "error" <=> (exitcode # 0 /\ stdout = <<>>)
  /\ pc # "done" => exitcode = -1

C8_Witness ==
  /\ pc = "done"
  /\ exitcode = 0
  /\ Len(stdout) = 1
  /\ Len(result.invalid) = MaxLen

\* C9: the second run of the validator on the same input sequence ends as the
\* first did (the same statistics, or the same failure), and no step after
\* loading changes the input records.
C9_SecondRunSame ==
  /\ [](runs = 2 /\ pc \in {"returned", "raised"} => result = first)
  /\ [][pc # "start" => data' = data]_vars

C9_Witness ==
  /\ runs = 2
  /\ pc = "returned"
  /\ result = first
  /\ Len(data) = MaxLen
  /\ Len(result.invalid) = 2

====
